---- MODULE Spec2Model ----
(***************************************************************************)
(* TIFF compression tool: the verifier (compression_check.py), the         *)
(* compressor (tiff_compression.py) and the compress action of the GUI     *)
(* (tiff_compression_gui.py), over a file system of TIFF files.            *)
(***************************************************************************)
EXTENDS Integers, Sequences, FiniteSets, TLC

(***************************************************************************)
(* Bounds of the model.                                                    *)
(***************************************************************************)
\* Largest finite pixel value; pixels are 0..MaxPixel and NaN.
MaxPixel == 1
\* Largest number of elements of an image array.
MaxLen == 2
\* Largest value of a metadata field (frames, slices, channels).
MaxField == 2
\* Largest on-disk encoding variant of one image (codec, layout, tags).
MaxEnc == 1
\* Number of digest values of the model's MD5.
DigestRange == 2

(***************************************************************************)
(* Pixels and arrays (numpy).  A float TIFF may hold NaN.                  *)
(***************************************************************************)
\* NaN, the one pixel value that is no number, is written -1.
NaN == -1

Pixels == (0..MaxPixel) \cup {NaN}

\* The shapes an array of n elements is given here: flat, row and column.
Shapes(n) == {<<n>>, <<1, n>>, <<n, 1>>}

ArraysOfLen(n) == {[shape |-> s, data |-> d] : s \in Shapes(n), d \in [1..n -> Pixels]}

Arrays == UNION {ArraysOfLen(n) : n \in 1..MaxLen}

\* Element comparison of numpy (IEEE): NaN equals nothing, itself included.
np_eq(x, y) == x # NaN /\ y # NaN /\ x = y

np_array_equal(a, b) ==
    /\ a.shape = b.shape
    /\ \A i \in 1..Len(a.data) : np_eq(a.data[i], b.data[i])

HasNaN(d) == \E i \in 1..Len(d) : d[i] = NaN

RECURSIVE SumSeq(_)
SumSeq(d) == IF d = <<>> THEN 0 ELSE d[1] + SumSeq(Tail(d))

RECURSIVE SumSq(_)
SumSq(d) == IF d = <<>> THEN 0 ELSE d[1] * d[1] + SumSq(Tail(d))

\* A float result: NaN, or the exact ratio num / den.
Float(n, d) == [nan |-> FALSE, num |-> n, den |-> d]

FloatNaN == [nan |-> TRUE, num |-> 0, den |-> 1]

float_eq(x, y) == ~x.nan /\ ~y.nan /\ x.num * y.den = y.num * x.den

np_min(a) ==
    IF HasNaN(a.data) THEN FloatNaN
    ELSE Float(CHOOSE m \in 0..MaxPixel :
                 /\ \E i \in 1..Len(a.data) : a.data[i] = m
                 /\ \A i \in 1..Len(a.data) : a.data[i] >= m, 1)

np_max(a) ==
    IF HasNaN(a.data) THEN FloatNaN
    ELSE Float(CHOOSE m \in 0..MaxPixel :
                 /\ \E i \in 1..Len(a.data) : a.data[i] = m
                 /\ \A i \in 1..Len(a.data) : a.data[i] =< m, 1)

np_mean(a) ==
    IF HasNaN(a.data) THEN FloatNaN
    ELSE Float(SumSeq(a.data), Len(a.data))

\* The standard deviation is compared through its square, the variance
\* (n * sum(x^2) - sum(x)^2) / n^2: the square root is one-to-one.
np_std(a) ==
    IF HasNaN(a.data) THEN FloatNaN
    ELSE Float(Len(a.data) * SumSq(a.data) - SumSeq(a.data) * SumSeq(a.data),
               Len(a.data) * Len(a.data))

(***************************************************************************)
(* ImageJ metadata: absent (None) or a mapping of some fields to values.   *)
(***************************************************************************)
crucial_fields == {"frames", "slices", "channels"}

NoMeta == [none |-> TRUE, kv |-> <<>>]

Meta(kv) == [none |-> FALSE, kv |-> kv]

Metas == {NoMeta} \cup
         {Meta(kv) : kv \in UNION {[F -> 1..MaxField] : F \in SUBSET crucial_fields}}

\* dict.get: the value, or None for a missing key.
DictNone == 0

dict_get(m, field) == IF field \in DOMAIN m.kv THEN m.kv[field] ELSE DictNone

(***************************************************************************)
(* Files.  A TIFF file is its bytes: one encoding variant of an array and  *)
(* its metadata.  A corrupt file exists and cannot be decoded.             *)
(***************************************************************************)
Tiff(e, a, m) == [kind |-> "tiff", enc |-> e, arr |-> a, meta |-> m]

Corrupt == [kind |-> "corrupt", enc |-> 0, arr |-> <<>>, meta |-> NoMeta]

Absent == [kind |-> "absent", enc |-> 0, arr |-> <<>>, meta |-> NoMeta]

Readable(f) == f.kind = "tiff"

\* A return value, or a raised exception.
Return(v) == [raised |-> FALSE, value |-> v]

Raise == [raised |-> TRUE, value |-> FALSE]

(***************************************************************************)
(* TiffVerifier (compression_check.py).                                    *)
(***************************************************************************)
\* tifffile.imread / tifffile.TiffFile: fails on a file it cannot decode.
CanOpen(o, c) == Readable(o) /\ Readable(c)

verify_pixel_values(o, c) ==
    IF ~CanOpen(o, c) THEN Raise
    ELSE IF o.arr.shape # c.arr.shape THEN Return(FALSE)
    ELSE Return(np_array_equal(o.arr, c.arr))

\* hashlib.md5 over the file's raw bytes.  The bytes of a file are the file
\* value itself; the digest is a function of all of them with finitely many
\* values, so two different files can have the same digest.
MetaSum(m) ==
    IF m.none THEN 0
    ELSE 1 + dict_get(m, "frames") + dict_get(m, "slices") + dict_get(m, "channels")

get_file_hash(f) ==
    IF f.kind = "corrupt" THEN 0
    ELSE (f.enc + Len(f.arr.shape) + SumSeq(f.arr.data) + MetaSum(f.meta)) % DigestRange

\* == in place of !=.
verify_file_hashes_mut(o, c) ==
    IF o.kind = "absent" \/ c.kind = "absent" THEN Raise
    ELSE Return(get_file_hash(o) = get_file_hash(c))

verify_file_hashes(o, c) ==
    IF o.kind = "absent" \/ c.kind = "absent" THEN Raise
    ELSE Return(get_file_hash(o) # get_file_hash(c))

verify_dimensions(o, c) ==
    IF ~CanOpen(o, c) THEN Raise
    ELSE Return(o.arr.shape = c.arr.shape)

\* Every crucial field compared, those absent from the original included.
verify_metadata_mut(o, c) ==
    IF ~CanOpen(o, c) THEN Raise
    ELSE IF o.meta.none /\ c.meta.none THEN Return(TRUE)
    ELSE IF o.meta.none # c.meta.none THEN Return(FALSE)
    ELSE Return(\A field \in crucial_fields :
                    dict_get(o.meta, field) = dict_get(c.meta, field))

verify_metadata(o, c) ==
    IF ~CanOpen(o, c) THEN Raise
    ELSE IF o.meta.none /\ c.meta.none THEN Return(TRUE)
    ELSE IF o.meta.none # c.meta.none THEN Return(FALSE)
    ELSE Return(\A field \in {f \in crucial_fields : f \in DOMAIN o.meta.kv} :
                    dict_get(o.meta, field) = dict_get(c.meta, field))

verify_statistics(o, c) ==
    IF ~CanOpen(o, c) THEN Raise
    ELSE Return(/\ float_eq(np_min(o.arr), np_min(c.arr))
                /\ float_eq(np_max(o.arr), np_max(c.arr))
                /\ float_eq(np_mean(o.arr), np_mean(c.arr))
                /\ float_eq(np_std(o.arr), np_std(c.arr)))

CheckNames == {"pixel_values_match", "file_hash_different", "dimensions_match",
               "metadata_matches", "statistical_match"}

CheckOf(name, o, c) ==
    CASE name = "pixel_values_match" -> verify_pixel_values(o, c)
      [] name = "file_hash_different" -> verify_file_hashes(o, c)
      [] name = "dimensions_match" -> verify_dimensions(o, c)
      [] name = "metadata_matches" -> verify_metadata(o, c)
      [] name = "statistical_match" -> verify_statistics(o, c)

verify_all(o, c) ==
    IF \E name \in CheckNames : CheckOf(name, o, c).raised THEN Raise
    ELSE Return([name \in CheckNames |-> CheckOf(name, o, c).value])

\* success left at None when a check fails.
check_compression_mut(o, c) ==
    LET results == verify_all(o, c) IN
    IF results.raised THEN [raised |-> TRUE, value |-> "None"]
    ELSE IF \A name \in DOMAIN results.value : results.value[name]
         THEN [raised |-> FALSE, value |-> "True"]
         ELSE [raised |-> FALSE, value |-> "None"]

\* success starts as None and is set on both branches.
check_compression(o, c) ==
    LET results == verify_all(o, c) IN
    IF results.raised THEN [raised |-> TRUE, value |-> "None"]
    ELSE IF \A name \in DOMAIN results.value : results.value[name]
         THEN [raised |-> FALSE, value |-> "True"]
         ELSE [raised |-> FALSE, value |-> "False"]

(***************************************************************************)
(* Paths.  A file name is a stem and an extension in a directory; a stem   *)
(* is a base name followed by the "_compressed_<method>" suffixes it       *)
(* carries, so <<"a", "zip">> is "a_compressed_zip".                       *)
(***************************************************************************)
Methods == {"zip", "lzw"}

Dirs == {"root"}

Exts == {".tif", ".tiff"}

Path(d, st, e) == [dir |-> d, stem |-> st, ext |-> e]

\* The files that may be on disk at the start, a pre-existing
\* "a_compressed_zip.tif" among them.
InitPaths ==
    {Path(d, <<"a">>, e) : d \in Dirs, e \in Exts}
      \cup {Path(d, <<"a", "zip">>, ".tif") : d \in Dirs}

\* The file values of the file system: one-pixel images without NaN, each in
\* every encoding, and a corrupt file; the files on disk at the start are in
\* the first encoding.
FlowArrays == {[shape |-> <<1>>, data |-> <<p>>] : p \in 0..MaxPixel}

FlowFiles == {Tiff(e, a, NoMeta) : e \in 0..MaxEnc, a \in FlowArrays} \cup {Corrupt}

InitFiles == {Tiff(0, a, NoMeta) : a \in FlowArrays} \cup {Corrupt}

\* A file system maps the paths that exist to their files.
FileAt(files, p) == IF p \in DOMAIN files THEN files[p] ELSE Absent

\* Opening a path for writing creates or replaces the file.
WriteFile(files, p, f) ==
    [q \in DOMAIN files \cup {p} |-> IF q = p THEN f ELSE files[q]]

\* os.remove
RemoveFile(files, p) == [q \in DOMAIN files \ {p} |-> files[q]]

(***************************************************************************)
(* TiffCompressorManager.compress_file and TiffCompressor.                 *)
(***************************************************************************)
CompressedName(file, compression_type) ==
    Path(file.dir, Append(file.stem, compression_type), ".tif")

\* What tifffile.imwrite does to the output path: it writes the file `out`
\* ("none"), fails before opening it ("before"), or fails while writing and
\* leaves a partial file ("partial").
Writes ==
    {[fault |-> "none", out |-> f] : f \in FlowFiles}
      \cup {[fault |-> x, out |-> Corrupt] : x \in {"before", "partial"}}

\* compress_file: the file system after it, the output path, the exception.
compress_file(files, file, compression_type, wr) ==
    LET compressed_name == CompressedName(file, compression_type) IN
    IF file \notin DOMAIN files
      THEN [fs |-> files, name |-> compressed_name, exc |-> "FileNotFoundError"]
    ELSE IF ~Readable(files[file]) \/ wr.fault = "before"
      THEN [fs |-> files, name |-> compressed_name, exc |-> "Exception"]
    ELSE IF wr.fault = "partial"
      THEN [fs |-> WriteFile(files, compressed_name, Corrupt),
            name |-> compressed_name, exc |-> "Exception"]
    ELSE [fs |-> WriteFile(files, compressed_name, wr.out),
          name |-> compressed_name, exc |-> "none"]

(***************************************************************************)
(* TiffCompressorGUI.                                                      *)
(***************************************************************************)
NoPath == Path("", <<>>, "")

\* Python truth of check_compression's result.
Truthy(success) == success = "True"

\* A manage_files that deletes the original whatever the verification said.
manage_files_mut(files, original_path, compressed_path, compression_successful, rm_fails) ==
    LET target == IF compression_successful THEN original_path ELSE compressed_path IN
    IF rm_fails \/ target \notin DOMAIN files
      THEN [fs |-> files, kept |-> original_path, error |-> TRUE]
      ELSE [fs |-> RemoveFile(files, original_path),
            kept |-> IF compression_successful THEN compressed_path ELSE original_path,
            error |-> FALSE]

\* os.remove of the original (success) or of the compressed file (failure);
\* a failing os.remove is caught and the original reported as kept.
manage_files(files, original_path, compressed_path, compression_successful, rm_fails) ==
    LET target == IF compression_successful THEN original_path ELSE compressed_path IN
    IF rm_fails \/ target \notin DOMAIN files
      THEN [fs |-> files, kept |-> original_path, error |-> TRUE]
      ELSE [fs |-> RemoveFile(files, target),
            kept |-> IF compression_successful THEN compressed_path ELSE original_path,
            error |-> FALSE]

\* One single-file flow: the file system after it, the exception that ended
\* it and the stage that raised it, and what was reported.
Flow(files, file, compressed, exc, stage, success, managed, rm_error, kept) ==
    [fs |-> files, file |-> file, compressed |-> compressed, exc |-> exc,
     stage |-> stage, success |-> success, managed |-> managed,
     rm_error |-> rm_error, kept |-> kept]

\* A flow that deletes the output when verification raises.
compress_single_file_mut(files, file_path, compression_type, wr, rm_fails) ==
    LET c == compress_file(files, file_path, compression_type, wr) IN
    IF c.exc # "none"
      THEN Flow(c.fs, file_path, c.name, c.exc, "compress", "None", FALSE, FALSE, NoPath)
    ELSE
      LET chk == check_compression(FileAt(c.fs, file_path), FileAt(c.fs, c.name)) IN
      IF chk.raised
        THEN Flow(RemoveFile(c.fs, c.name), file_path, c.name, "Exception",
                  "verify", "None", FALSE, FALSE, NoPath)
      ELSE
        LET m == manage_files(c.fs, file_path, c.name, Truthy(chk.value), rm_fails) IN
        Flow(m.fs, file_path, c.name, "none", "done", chk.value, TRUE, m.error, m.kept)

compress_single_file(files, file_path, compression_type, wr, rm_fails) ==
    LET c == compress_file(files, file_path, compression_type, wr) IN
    IF c.exc # "none"
      THEN Flow(c.fs, file_path, c.name, c.exc, "compress", "None", FALSE, FALSE, NoPath)
    ELSE
      LET chk == check_compression(FileAt(c.fs, file_path), FileAt(c.fs, c.name)) IN
      IF chk.raised
        THEN Flow(c.fs, file_path, c.name, "Exception", "verify", "None", FALSE, FALSE,
                  NoPath)
      ELSE
        LET m == manage_files(c.fs, file_path, c.name, Truthy(chk.value), rm_fails) IN
        Flow(m.fs, file_path, c.name, "none", "done", chk.value, TRUE, m.error, m.kept)

(***************************************************************************)
(* State.                                                                  *)
(***************************************************************************)
VARIABLES
    fs,               \* the file system: the file at each path, or Absent
    fs0,              \* the file system when the current compress action began
    path_var,         \* the selected path
    compression_var,  \* the selected method
    progress_var,     \* the status line
    dialog,           \* the last modal dialog shown
    pc,               \* "idle", "folder" inside compress_folder's loop, "done"
    tiff_files,       \* the files compress_folder enumerated
    idx,              \* the position in tiff_files of the next file
    processed,        \* the files the single-file flow was applied to
    last,             \* the last single-file flow
    caught,           \* the exception the last compress action caught
    escaped,          \* an exception left the compress action
    vorig,            \* TiffVerifier.original_path's file
    vcomp,            \* TiffVerifier.compressed_path's file
    vop,              \* the verifier method last called
    vres              \* what it returned

flowVars == <<fs, fs0, path_var, compression_var, progress_var, dialog, pc,
              tiff_files, idx, processed, last, caught, escaped>>

verVars == <<vorig, vcomp, vop, vres>>

vars == <<flowVars, verVars>>

EmptyPath == [kind |-> "empty", path |-> NoPath]

FilePath(p) == [kind |-> "file", path |-> p]

FolderPath(d) == [kind |-> "folder", path |-> Path(d, <<>>, "")]

NoFlow ==
    [idx |-> 0, file |-> NoPath, compressed |-> NoPath, exc |-> "none",
     stage |-> "none", success |-> "None", managed |-> FALSE, rm_error |-> FALSE, kept |-> NoPath]

LastOf(r, i) ==
    [idx |-> i, file |-> r.file, compressed |-> r.compressed,
     exc |-> r.exc, stage |-> r.stage, success |-> r.success, managed |-> r.managed,
     rm_error |-> r.rm_error, kept |-> r.kept]

FlowInit ==
    /\ \E S \in SUBSET InitPaths : fs \in [S -> InitFiles]
    /\ fs0 = fs
    /\ path_var = EmptyPath
    /\ compression_var = "zip"
    /\ progress_var = "Ready"
    /\ dialog = "none"
    /\ pc = "idle"
    /\ tiff_files = <<>>
    /\ idx = 0
    /\ processed = <<>>
    /\ last = NoFlow
    /\ caught = "none"
    /\ escaped = FALSE

VerIdle ==
    /\ vorig = Absent
    /\ vcomp = Absent
    /\ vop = "none"
    /\ vres = Raise

Init == FlowInit /\ VerIdle

(***************************************************************************)
(* TiffCompressorGUI.compress: the try / except Exception around the work. *)
(***************************************************************************)
ExceptionSubclasses == {"Exception", "FileNotFoundError"}

\* except OSError in place of except Exception.
except_Exception_mut(exc) == exc = "FileNotFoundError"

except_Exception(exc) == exc \in ExceptionSubclasses

\* The end of the compress action, given the exception the work raised.
Finish(exc) ==
    IF exc = "none"
      THEN /\ progress_var' = "Compression completed!"
           /\ dialog' = "showinfo: Success"
           /\ caught' = "none"
           /\ escaped' = FALSE
    ELSE IF except_Exception(exc)
      THEN /\ progress_var' = "Error occurred!"
           /\ dialog' = "showerror: An error occurred"
           /\ caught' = exc
           /\ escaped' = FALSE
    ELSE /\ progress_var' = "Processing..."
         /\ dialog' = dialog
         /\ caught' = "none"
         /\ escaped' = TRUE

\* compress with no path selected.
CompressNoPath ==
    /\ pc = "idle"
    /\ path_var' = EmptyPath
    /\ dialog' = "showerror: Please select a file or folder first"
    /\ fs0' = fs
    /\ tiff_files' = <<>>
    /\ idx' = 0
    /\ processed' = <<>>
    /\ caught' = "none"
    /\ escaped' = FALSE
    /\ pc' = "done"
    /\ UNCHANGED <<fs, compression_var, progress_var, last, verVars>>

\* compress with a path that is a file: compress_single_file.
CompressFile ==
    /\ pc = "idle"
    /\ \E p \in DOMAIN fs, m \in Methods :
         /\ \E r \in {compress_single_file(fs, p, m, wr, rm_fails) :
                        wr \in Writes, rm_fails \in BOOLEAN} :
              /\ fs' = r.fs
              /\ last' = LastOf(r, 1)
              /\ Finish(r.exc)
         /\ path_var' = FilePath(p)
         /\ compression_var' = m
         /\ processed' = <<p>>
    /\ fs0' = fs
    /\ tiff_files' = <<>>
    /\ idx' = 0
    /\ pc' = "done"
    /\ UNCHANGED verVars

\* Path(folder_path).glob("**/*.tif*"): every file under the folder, in the
\* order the directory walk gives; nothing under a path that is no folder.
Glob(sel) ==
    IF sel.kind = "folder"
      THEN {p \in DOMAIN fs : sel.path.dir = "root" \/ p.dir = sel.path.dir}
      ELSE {}

Orders(S) == {o \in [1..Cardinality(S) -> S] : \A i, j \in DOMAIN o : o[i] = o[j] => i = j}

\* compress with a path that is no file: compress_folder up to its loop.
CompressFolder ==
    /\ pc = "idle"
    /\ \E sel \in {FolderPath(d) : d \in Dirs} \cup {FilePath(p) : p \in InitPaths},
          m \in Methods :
         /\ sel.kind = "file" => sel.path \notin DOMAIN fs
         /\ path_var' = sel
         /\ compression_var' = m
         /\ \E o \in Orders(Glob(sel)) :
              /\ tiff_files' = o
              /\ IF Len(o) = 0
                   THEN /\ Finish("none")
                        /\ pc' = "done"
                        /\ idx' = 0
                   ELSE /\ pc' = "folder"
                        /\ idx' = 1
                        /\ progress_var' = "Processing..."
                        /\ caught' = "none"
                        /\ escaped' = FALSE
                        /\ UNCHANGED dialog
    /\ fs0' = fs
    /\ processed' = <<>>
    /\ UNCHANGED <<fs, last, verVars>>

\* After one file of the loop: an exception leaves the loop.
compress_folder_step(r) == IF r.exc # "none" THEN "raise" ELSE "next"

\* One iteration of compress_folder's loop, and the end of compress after
\* the last one or after an exception.
FolderStep ==
    /\ pc = "folder"
    /\ \E r \in {compress_single_file(fs, tiff_files[idx], compression_var, wr, rm_fails) :
                    wr \in Writes, rm_fails \in BOOLEAN} :
         /\ fs' = r.fs
         /\ last' = LastOf(r, idx)
         /\ processed' = Append(processed, tiff_files[idx])
         /\ IF compress_folder_step(r) = "raise"
              THEN /\ Finish(r.exc)
                   /\ pc' = "done"
                   /\ UNCHANGED idx
            ELSE IF idx = Len(tiff_files)
              THEN /\ Finish("none")
                   /\ pc' = "done"
                   /\ UNCHANGED idx
            ELSE /\ idx' = idx + 1
                 /\ progress_var' = "Processing file"
                 /\ UNCHANGED <<pc, dialog, caught, escaped>>
    /\ UNCHANGED <<fs0, path_var, compression_var, tiff_files, verVars>>

Next ==
    \/ CompressNoPath
    \/ CompressFile
    \/ CompressFolder
    \/ FolderStep

\* One compress action of the GUI, from any file system.
Spec == Init /\ [][Next]_vars

(***************************************************************************)
(* The verifier on its own: a TiffVerifier over any two files, and one     *)
(* call of one of its methods.  The verifier keeps no state between calls, *)
(* so one call from the fresh object covers every call.                    *)
(***************************************************************************)
\* Files that differ in their arrays only.
ArrayFiles == {Tiff(0, a, NoMeta) : a \in Arrays} \cup {Corrupt}

\* Files that differ in their metadata only.
MetaFiles ==
    {Tiff(0, [shape |-> <<1>>, data |-> <<0>>], m) : m \in Metas} \cup {Corrupt}

\* Files that differ in encoding, array and metadata, and a missing file.
MixedFiles ==
    {Tiff(e, a, m) : e \in 0..MaxEnc, a \in ArraysOfLen(1),
                     m \in {NoMeta, Meta([f \in {"frames"} |-> 1])}}
      \cup {Corrupt, Absent}

\* The GUI at rest, with no file system in play.
FlowIdle ==
    /\ fs = [p \in {} |-> Absent]
    /\ fs0 = fs
    /\ path_var = EmptyPath
    /\ compression_var = "zip"
    /\ progress_var = "Ready"
    /\ dialog = "none"
    /\ pc = "idle"
    /\ tiff_files = <<>>
    /\ idx = 0
    /\ processed = <<>>
    /\ last = NoFlow
    /\ caught = "none"
    /\ escaped = FALSE

\* TiffVerifier.__init__
VerInit ==
    /\ \E S \in {ArrayFiles, MetaFiles, MixedFiles} :
         /\ vorig \in S
         /\ vcomp \in S
    /\ vop = "none"
    /\ vres = Raise
    /\ FlowIdle

Call(op, res) ==
    /\ vop = "none"
    /\ vop' = op
    /\ vres' = res
    /\ UNCHANGED <<vorig, vcomp, flowVars>>

VerifyPixelValues == Call("verify_pixel_values", verify_pixel_values(vorig, vcomp))

VerifyFileHashes == Call("verify_file_hashes", verify_file_hashes(vorig, vcomp))

VerifyDimensions == Call("verify_dimensions", verify_dimensions(vorig, vcomp))

VerifyMetadata == Call("verify_metadata", verify_metadata(vorig, vcomp))

VerifyStatistics == Call("verify_statistics", verify_statistics(vorig, vcomp))

VerifyAll == Call("verify_all", verify_all(vorig, vcomp))

CheckCompression == Call("check_compression", check_compression(vorig, vcomp))

VerNext ==
    \/ VerifyPixelValues
    \/ VerifyFileHashes
    \/ VerifyDimensions
    \/ VerifyMetadata
    \/ VerifyStatistics
    \/ VerifyAll
    \/ CheckCompression

SpecVerify == VerInit /\ [][VerNext]_vars

(***************************************************************************)
(* Properties of the verifier, checked under SpecVerify.                   *)
(***************************************************************************)
Called(op) == vop = op /\ ~vres.raised

Count(d, v) == Cardinality({i \in DOMAIN d : d[i] = v})

\* The two arrays hold the same elements, in any order.
IsPermutation(a, b) ==
    /\ Len(a.data) = Len(b.data)
    /\ \A v \in Pixels : Count(a.data, v) = Count(b.data, v)

\* C3: verify_all returns a mapping with exactly the five entries
\* pixel_values_match, file_hash_different, dimensions_match,
\* metadata_matches and statistical_match, each the boolean its check
\* returned; check_compression returns True if and only if all five checks
\* are true, and False, never None, otherwise.
C3_VerifyAllAggregates ==
    /\ Called("verify_all") =>
         /\ DOMAIN vres.value = {"pixel_values_match", "file_hash_different",
                                 "dimensions_match", "metadata_matches",
                                 "statistical_match"}
         /\ \A name \in DOMAIN vres.value : vres.value[name] \in BOOLEAN
         /\ vres.value["pixel_values_match"] = verify_pixel_values(vorig, vcomp).value
         /\ vres.value["file_hash_different"] = verify_file_hashes(vorig, vcomp).value
         /\ vres.value["dimensions_match"] = verify_dimensions(vorig, vcomp).value
         /\ vres.value["metadata_matches"] = verify_metadata(vorig, vcomp).value
         /\ vres.value["statistical_match"] = verify_statistics(vorig, vcomp).value
    /\ Called("check_compression") =>
         /\ vres.value \in {"True", "False"}
         /\ vres.value = "True" <=>
              /\ verify_pixel_values(vorig, vcomp).value
              /\ verify_file_hashes(vorig, vcomp).value
              /\ verify_dimensions(vorig, vcomp).value
              /\ verify_metadata(vorig, vcomp).value
              /\ verify_statistics(vorig, vcomp).value

\* check_compression returned False for a pair that fails the hash check
\* alone.
C3_Witness ==
    /\ Called("check_compression")
    /\ vres.value = "False"
    /\ verify_pixel_values(vorig, vcomp).value
    /\ verify_dimensions(vorig, vcomp).value
    /\ verify_metadata(vorig, vcomp).value
    /\ verify_statistics(vorig, vcomp).value
    /\ ~verify_file_hashes(vorig, vcomp).value

\* C4: verify_metadata returns true when both files lack metadata, false
\* when exactly one lacks it, and, when both have metadata, true if and only
\* if every crucial field present in the original's metadata has the same
\* value in the compressed file's metadata; fields absent from the original
\* are skipped, also when the compressed file has them.
C4_VerifyMetadata ==
    Called("verify_metadata") =>
        /\ (vorig.meta.none /\ vcomp.meta.none) => vres.value = TRUE
        /\ (vorig.meta.none # vcomp.meta.none) => vres.value = FALSE
        /\ (~vorig.meta.none /\ ~vcomp.meta.none) =>
             (vres.value <=>
                \A field \in {"frames", "slices", "channels"} :
                    field \in DOMAIN vorig.meta.kv =>
                        /\ field \in DOMAIN vcomp.meta.kv
                        /\ vcomp.meta.kv[field] = vorig.meta.kv[field])

\* verify_metadata returned true although the compressed file has a crucial
\* field the original lacks.
C4_Witness ==
    /\ Called("verify_metadata")
    /\ vres.value = TRUE
    /\ ~vorig.meta.none
    /\ DOMAIN vorig.meta.kv # {}
    /\ \E field \in DOMAIN vcomp.meta.kv : field \notin DOMAIN vorig.meta.kv

\* C5: verify_pixel_values raises if either file cannot be read; otherwise
\* it returns false if the shapes differ, and for equal shapes true if and
\* only if every element of the compressed array is the corresponding
\* element of the original: true for identical arrays, false when any
\* single pixel differs.
C5_VerifyPixelValues ==
    vop = "verify_pixel_values" =>
        /\ vres.raised <=> (~Readable(vorig) \/ ~Readable(vcomp))
        /\ ~vres.raised =>
             /\ vorig.arr.shape # vcomp.arr.shape => vres.value = FALSE
             /\ vorig.arr.shape = vcomp.arr.shape =>
                  (vres.value <=>
                     \A i \in DOMAIN vorig.arr.data :
                         vcomp.arr.data[i] = vorig.arr.data[i])

\* C6 as amended: verify_file_hashes returns true if and only if the MD5
\* digests of the two files differ; it returns false for the same file twice
\* (identical bytes), whatever the pixels, and a byte-identical output makes
\* check_compression fail.
C6_VerifyFileHashes ==
    /\ Called("verify_file_hashes") =>
         /\ vres.value <=> get_file_hash(vorig) # get_file_hash(vcomp)
         /\ vorig = vcomp => vres.value = FALSE
         /\ vres.value = TRUE => vorig # vcomp
    /\ (Called("check_compression") /\ vorig = vcomp) => vres.value = "False"

\* verify_file_hashes returned true for two files of identical pixel content.
C6_Witness ==
    /\ Called("verify_file_hashes")
    /\ vres.value = TRUE
    /\ Readable(vorig)
    /\ Readable(vcomp)
    /\ vorig.arr = vcomp.arr
    /\ vorig.meta = vcomp.meta

\* C6 as stated: verify_file_hashes returns false for identical bytes and
\* true for two files with differing byte content.
C6_Original ==
    Called("verify_file_hashes") => (vres.value <=> vorig # vcomp)

\* C7: verify_statistics reports a match for two arrays that are
\* permutations of each other, and no match for two arrays whose means
\* differ.
C7_VerifyStatistics ==
    Called("verify_statistics") =>
        /\ IsPermutation(vorig.arr, vcomp.arr) => vres.value = TRUE
        /\ (SumSeq(vorig.arr.data) * Len(vcomp.arr.data)
              # SumSeq(vcomp.arr.data) * Len(vorig.arr.data)) => vres.value = FALSE

(***************************************************************************)
(* Properties of the compress action, checked under Spec.  `last` is the   *)
(* latest single-file flow and fs the file system right after it.          *)
(***************************************************************************)
Exists(p) == p \in DOMAIN fs

\* The latest single-file flow ran to its end, manage_files included.
FlowCompleted == last.idx > 0 /\ last.exc = "none"

\* The latest single-file flow was ended by an exception.
FlowRaised == last.idx > 0 /\ last.exc # "none"

\* The policy of the single-file flow on the two files.
KeepCompressed ==
    /\ ~Exists(last.file)
    /\ Exists(last.compressed)
    /\ last.kept = last.compressed

KeepOriginal ==
    /\ Exists(last.file)
    /\ ~Exists(last.compressed)
    /\ last.kept = last.file

\* C1 as stated: after a single-file flow that completed without an
\* exception, the original is deleted and the compressed file exists if
\* verification succeeded, the compressed file is deleted and the original
\* exists if it failed; exactly one of the two remains and it is the file
\* reported as kept.
C1_Original ==
    FlowCompleted =>
        /\ Truthy(last.success) => KeepCompressed
        /\ ~Truthy(last.success) => KeepOriginal
        /\ Exists(last.file) # Exists(last.compressed)
        /\ Exists(last.kept)

\* C1 as amended: the same, when os.remove did not fail; when os.remove
\* raised, manage_files caught it, both files remain and the original is
\* reported as kept.  In every case the file reported as kept remains.
C1_SingleFileFlow ==
    FlowCompleted =>
        /\ last.managed
        /\ (~last.rm_error /\ Truthy(last.success)) => KeepCompressed
        /\ (~last.rm_error /\ ~Truthy(last.success)) => KeepOriginal
        /\ ~last.rm_error => Exists(last.file) # Exists(last.compressed)
        /\ last.rm_error =>
             /\ Exists(last.file)
             /\ Exists(last.compressed)
             /\ last.kept = last.file
        /\ Exists(last.kept)

\* A flow whose verification failed ended with the compressed file deleted
\* and the original kept.
C1_Witness ==
    /\ FlowCompleted
    /\ last.success = "False"
    /\ ~last.rm_error
    /\ KeepOriginal

\* C2: when compress_folder is over, the single-file flow has been applied
\* to every enumerated file, in the order of the enumeration, whether or not
\* an earlier file failed verification or raised an error.
C2_BatchContinues ==
    (pc = "done" /\ path_var.kind = "folder") => processed = tiff_files

\* C8: no exception leaves the compress action.  When the action is over,
\* with an empty path it has shown an error and processed no file;
\* otherwise, if a flow raised, the status is 'Error occurred!' with an error
\* dialog, and the status 'Compression completed!' and the success dialog
\* are shown only if no flow raised.
C8_CompressCatches ==
    /\ ~escaped
    /\ pc = "folder" =>
         /\ ~FlowRaised
         /\ progress_var # "Compression completed!"
         /\ dialog # "showinfo: Success"
    /\ (pc = "done" /\ path_var.kind = "empty") =>
         /\ dialog = "showerror: Please select a file or folder first"
         /\ processed = <<>>
         /\ last = NoFlow
         /\ fs = fs0
    /\ (pc = "done" /\ path_var.kind # "empty") =>
         /\ FlowRaised =>
              /\ progress_var = "Error occurred!"
              /\ dialog = "showerror: An error occurred"
              /\ caught = last.exc
         /\ ~FlowRaised =>
              /\ progress_var = "Compression completed!"
              /\ dialog = "showinfo: Success"
              /\ caught = "none"

\* A compress action ended by the FileNotFoundError of a later file of the
\* folder.
C8_Witness ==
    /\ pc = "done"
    /\ FlowRaised
    /\ last.exc = "FileNotFoundError"
    /\ progress_var = "Error occurred!"

\* C9: during and after compress_folder, the pixel content of every file
\* that was on disk when it began is still held by some file on disk.
C9_NoDataLoss ==
    path_var.kind = "folder" =>
        \A p \in DOMAIN fs0 :
            Readable(fs0[p]) =>
                \E q \in DOMAIN fs : Readable(fs[q]) /\ fs[q].arr = fs0[p].arr

\* C10: a single-file flow that ends with an exception has not reached
\* manage_files and has deleted no file: the original is unchanged, no path
\* but the output path has changed, and an output written before
\* verification raised is still there.
C10_RaiseDeletesNothing ==
    [][(last' # last /\ last'.exc # "none") =>
          /\ ~last'.managed
          /\ DOMAIN fs \subseteq DOMAIN fs'
          /\ FileAt(fs', last'.file) = FileAt(fs, last'.file)
          /\ \A p \in DOMAIN fs' :
                 FileAt(fs', p) # FileAt(fs, p) => p = last'.compressed
          /\ last'.stage = "verify" => last'.compressed \in DOMAIN fs']_vars

\* Verification raised on a corrupt output: both files are on disk.
C10_Witness ==
    /\ FlowRaised
    /\ last.stage = "verify"
    /\ ~last.managed
    /\ Readable(FileAt(fs, last.file))
    /\ FileAt(fs, last.compressed) = Corrupt

====
